---- MODULE Spec2Model ----
(***************************************************************************)
(* Log-analytics pipeline: the producer (src/unnamed/part_000) probes the  *)
(* demo API and publishes events to the api-logs and system-metrics        *)
(* topics; the consumer (kafka-consumer/consumer.js) parses each message   *)
(* and inserts one row into api_logs or system_metrics.                    *)
(***************************************************************************)
EXTENDS Integers, Sequences, FiniteSets, TLC

\* ------------------------------------------------------------------ bounds
MaxMsgs == 2
MaxRestarts == 1
MaxTicks == 2
MaxMetricTicks == 1
MaxPolls == 2
MaxRows == 24

\* ---------------------------------------------------------- JavaScript values
Undef == [t |-> "undef", n |-> 0, s |-> ""]
Null == [t |-> "null", n |-> 0, s |-> ""]
Bad == [t |-> "bad", n |-> 0, s |-> ""]
Num(n) == [t |-> "num", n |-> n, s |-> ""]
Str(s) == [t |-> "str", n |-> 0, s |-> s]

\* JavaScript truthiness: undefined, null, 0 and "" are falsy.
Truthy(v) ==
  CASE v.t = "undef" -> FALSE
    [] v.t = "null" -> FALSE
    [] v.t = "num" -> v.n # 0
    [] v.t = "str" -> v.s # ""
    [] OTHER -> TRUE

\* a || b
Or(a, b) == IF Truthy(a) THEN a ELSE b

\* ------------------------------------------------------------------- topics
API_LOGS == "api-logs"
SYSTEM_METRICS == "system-metrics"
topics == {API_LOGS, SYSTEM_METRICS}

\* ---------------------------------------------------------------------- JSON
\* JSON.stringify of an object: fields whose value is undefined are omitted.
Stringify(obj) ==
  [f \in {g \in DOMAIN obj : obj[g].t # "undef"} |-> obj[f]]

\* A message value: a JSON text (carried as its field map) or a text that is
\* not JSON.  src is the producer invocation that sent it (0: another client).
JsonMsg(obj, src) == [text |-> "json", obj |-> Stringify(obj), src |-> src]
GarbageMsg == [text |-> "garbage", obj |-> [f \in {} |-> Undef], src |-> 0]

\* JSON.parse(message.value.toString()): throws on a text that is not JSON.
JSONParse(value) ==
  IF value.text = "json" THEN [ok |-> TRUE, obj |-> value.obj]
  ELSE [ok |-> FALSE, obj |-> value.obj]

\* Destructuring const { f } = obj: undefined when the field is absent.
Get(obj, f) == IF f \in DOMAIN obj THEN obj[f] ELSE Undef

\* -------------------------------------------------------- number <-> text
Digit(d) ==
  CASE d = 0 -> "0" [] d = 1 -> "1" [] d = 2 -> "2" [] d = 3 -> "3"
    [] d = 4 -> "4" [] d = 5 -> "5" [] d = 6 -> "6" [] d = 7 -> "7"
    [] d = 8 -> "8" [] OTHER -> "9"

RECURSIVE NumToStr(_)
\* The decimal text of a non-negative integer, as the store client sends a
\* numeric parameter.
NumToStr(n) == IF n < 10 THEN Digit(n) ELSE NumToStr(n \div 10) \o Digit(n % 10)

\* The numbers that occur in events of this model.
Nums == {0, 7, 12, 42, 50, 55, 61, 70, 200, 249, 500}

\* The store's reading of a text as a number; Bad when it is not numeric.
ParseNumber(s) ==
  LET c == {n \in Nums : NumToStr(n) = s}
  IN IF c = {} THEN Bad ELSE Num(CHOOSE n \in c : TRUE)

\* ------------------------------------------------------- column coercions
\* The store client sends undefined and null as NULL.
ToNumeric(v) ==
  CASE v.t \in {"undef", "null"} -> Null
    [] v.t = "num" -> v
    [] v.t = "str" -> ParseNumber(v.s)
    [] OTHER -> Bad

ToVarchar(v) ==
  CASE v.t \in {"undef", "null"} -> Null
    [] v.t = "num" -> Str(NumToStr(v.n))
    [] v.t = "str" -> v
    [] OTHER -> Bad

\* new Date(timestamp) into TIMESTAMP NOT NULL: an absent timestamp is an
\* invalid date, which the store rejects.
ToTimestamp(v) == IF v.t = "num" THEN v ELSE Bad

\* ------------------------------------------------------------------ state
VARIABLES
  kafkaUp, apiUp, pgUp,       \* availability of broker, demo API, store
  topicNames,                 \* broker: topic name -> number of topics so named
  log,                        \* broker: topic -> sequence of message values
  ppc, pRestarts,             \* producer: position in main, process starts used
  adminConnectOk, healthOk,   \* producer: readiness checks that succeeded
  existingTopics,             \* producer: result of admin.listTopics()
  createReq,                  \* producer: topics named in the last createTopics call
  logTimer, metricTimer,      \* producer: setInterval installed
  ticks,                      \* producer: collectApiLogs invocations
  nMetricTicks,               \* producer: collectSystemMetrics invocations
  cpc, cRestarts,             \* consumer: position in main, process starts used
  pgChecked, ckChecked,       \* consumer: readiness checks that succeeded
  initDone,                   \* consumer: initializeDatabase returned in this run
  initRuns,                   \* consumer: completed initializeDatabase runs
  schema,                     \* store: relation name -> number of relations
  handled,                    \* consumer: topic -> outcome of each message
  cur,                        \* consumer: the eachMessage call in flight
  api_logs, system_metrics,   \* store: rows of the two tables
  serial,                     \* store: table -> next SERIAL id
  sd,                         \* consumer: position of the shutdown handler
  closed,                     \* consumer: connections the shutdown has closed
  vpc,                        \* viewer: what the CLI is waiting for
  vchoice, vparam,            \* viewer: menu choice in flight, its query parameter
  vout,                       \* viewer: how the last query ended
  vresult,                    \* viewer: rows the last query displayed
  lastId, tailOn,             \* viewer: tailLogs' cursor, its interval installed
  polls,                      \* viewer: the interval callbacks of tailLogs
  shown,                      \* viewer: ids of the rows tailLogs displayed
  apiReq, apiRes              \* demo service: last request, its response

envVars == <<kafkaUp, apiUp, pgUp>>
brokerVars == <<topicNames, log>>
producerVars == <<ppc, pRestarts, adminConnectOk, healthOk, existingTopics,
                  createReq, logTimer, metricTimer, ticks, nMetricTicks>>
consumerVars == <<cpc, cRestarts, pgChecked, ckChecked, initDone, initRuns,
                  handled, cur>>
storeVars == <<schema, api_logs, system_metrics, serial>>
shutdownVars == <<sd, closed>>
viewerVars == <<vpc, vchoice, vparam, vout, vresult, lastId, tailOn, polls,
                shown>>
serviceVars == <<apiReq, apiRes>>
sideVars == <<shutdownVars, viewerVars, serviceVars>>
vars == <<envVars, brokerVars, producerVars, consumerVars, storeVars, sideVars>>

\* ------------------------------------------------------------ environment
\* The broker, the demo API and the store come and go on their own.
KafkaFlip == kafkaUp' = ~kafkaUp /\ UNCHANGED <<apiUp, pgUp>>
ApiFlip == apiUp' = ~apiUp /\ UNCHANGED <<kafkaUp, pgUp>>
PgFlip == pgUp' = ~pgUp /\ UNCHANGED <<kafkaUp, apiUp>>

\* ------------------------------------------------------------ store schema
Tables == {"api_logs", "system_metrics"}
Indexes == {"idx_api_logs_timestamp", "idx_api_logs_endpoint",
            "idx_api_logs_status", "idx_system_metrics_timestamp"}
Relations == Tables \cup Indexes
NoSchema == [r \in Relations |-> 0]
FullSchema == [r \in Relations |-> 1]

\* CREATE TABLE without the guard: the store raises "already exists".
CreateUnguarded(s, name) ==
  IF s[name] > 0 THEN [schema |-> s, err |-> TRUE]
  ELSE [schema |-> [s EXCEPT ![name] = 1], err |-> FALSE]

\* CREATE TABLE / INDEX IF NOT EXISTS name.
CreateIfNotExists(s, name) ==
  IF s[name] > 0 THEN [schema |-> s, err |-> FALSE]
  ELSE [schema |-> [s EXCEPT ![name] = 1], err |-> FALSE]

\* The third query of initializeDatabase: four CREATE INDEX IF NOT EXISTS.
CreateIndexes(s) ==
  LET r1 == CreateIfNotExists(s, "idx_api_logs_timestamp")
      r2 == CreateIfNotExists(r1.schema, "idx_api_logs_endpoint")
      r3 == CreateIfNotExists(r2.schema, "idx_api_logs_status")
      r4 == CreateIfNotExists(r3.schema, "idx_system_metrics_timestamp")
  IN [schema |-> r4.schema, err |-> r1.err \/ r2.err \/ r3.err \/ r4.err]

\* --------------------------------------------------- consumer: main's order
\* main awaits waitForPostgres, waitForKafka, initializeDatabase,
\* connectToKafka and consumer.run in this order.
AfterWaitForPostgres == "wkConnect"
AfterWaitForKafkaSkippingInit == "consumerConnect"
AfterWaitForKafka == "createApiLogs"
AfterInitializeDatabase == "consumerConnect"
AfterConnectToKafka == "consumerRun"

Idle == [phase |-> "idle", topic |-> "", off |-> 0, row |-> [f \in {} |-> Null]]

ConsumerUnchangedBut(pc) ==
  /\ cpc' = pc
  /\ UNCHANGED <<cRestarts, pgChecked, ckChecked, initDone, initRuns, handled,
                 cur>>

\* The consumer process is started (main() at the end of the file).
C_Start ==
  /\ cpc = "exited"
  /\ cRestarts < MaxRestarts
  /\ cRestarts' = cRestarts + 1
  /\ cpc' = "wpConnect"
  /\ pgChecked' = FALSE /\ ckChecked' = FALSE /\ initDone' = FALSE
  /\ cur' = Idle
  /\ UNCHANGED <<initRuns, handled>>
  /\ UNCHANGED <<sideVars, envVars, brokerVars, producerVars, storeVars>>

\* ------------------------------------------------ consumer: waitForPostgres
\* The catch of a failed readiness check, were it to give up.
OnNotReadyGivingUp(sleep) == "exited"
\* The catch of a failed readiness check logs and awaits the 2-second timer.
OnNotReady(sleep) == sleep

C_PgConnect ==
  /\ cpc = "wpConnect"
  /\ ConsumerUnchangedBut(IF pgUp THEN "wpQuery" ELSE OnNotReady("wpSleep"))
  /\ UNCHANGED <<sideVars, envVars, brokerVars, producerVars, storeVars>>

C_PgQuery ==
  /\ cpc = "wpQuery"
  /\ IF pgUp
       THEN /\ pgChecked' = TRUE
            /\ cpc' = AfterWaitForPostgres
       ELSE /\ pgChecked' = pgChecked
            /\ cpc' = OnNotReady("wpSleep")
  /\ UNCHANGED <<cRestarts, ckChecked, initDone, initRuns, handled, cur>>
  /\ UNCHANGED <<sideVars, envVars, brokerVars, producerVars, storeVars>>

\* setTimeout(resolve, 2000), then the loop tests postgresReady again.
C_PgBackoff ==
  /\ cpc = "wpSleep"
  /\ ConsumerUnchangedBut("wpConnect")
  /\ UNCHANGED <<sideVars, envVars, brokerVars, producerVars, storeVars>>

\* --------------------------------------------------- consumer: waitForKafka
C_KafkaAdminConnect ==
  /\ cpc = "wkConnect"
  /\ ConsumerUnchangedBut(IF kafkaUp THEN "wkDisconnect"
                          ELSE OnNotReady("wkSleep"))
  /\ UNCHANGED <<sideVars, envVars, brokerVars, producerVars, storeVars>>

C_KafkaAdminDisconnect ==
  /\ cpc = "wkDisconnect"
  /\ IF kafkaUp
       THEN /\ ckChecked' = TRUE
            /\ cpc' = AfterWaitForKafka
       ELSE /\ ckChecked' = ckChecked
            /\ cpc' = OnNotReady("wkSleep")
  /\ UNCHANGED <<cRestarts, pgChecked, initDone, initRuns, handled, cur>>
  /\ UNCHANGED <<sideVars, envVars, brokerVars, producerVars, storeVars>>

C_KafkaBackoff ==
  /\ cpc = "wkSleep"
  /\ ConsumerUnchangedBut("wkConnect")
  /\ UNCHANGED <<sideVars, envVars, brokerVars, producerVars, storeVars>>

\* ---------------------------------------------- consumer: initializeDatabase
\* initializeDatabase's catch, were it to log and return.
AfterInitFailureContinuing == "consumerConnect"
\* initializeDatabase's catch: process.exit(1).
AfterInitFailure == "exited"

\* One pool.query of initializeDatabase: a failure is caught and exits.
InitQuery(from, res, to) ==
  /\ cpc = from
  /\ IF pgUp /\ ~res.err
       THEN /\ schema' = res.schema
            /\ cpc' = to
            /\ initDone' = (to = AfterInitializeDatabase)
            /\ initRuns' = IF to = AfterInitializeDatabase
                             THEN initRuns + 1 ELSE initRuns
       ELSE /\ schema' = schema
            /\ cpc' = AfterInitFailure
            /\ UNCHANGED <<initDone, initRuns>>
  /\ UNCHANGED <<cRestarts, pgChecked, ckChecked, handled, cur>>
  /\ UNCHANGED <<api_logs, system_metrics, serial>>
  /\ UNCHANGED <<sideVars, envVars, brokerVars, producerVars>>

C_CreateApiLogs ==
  InitQuery("createApiLogs", CreateIfNotExists(schema, "api_logs"),
            "createSystemMetrics")

C_CreateSystemMetrics ==
  InitQuery("createSystemMetrics", CreateIfNotExists(schema, "system_metrics"),
            "createIndexes")

C_CreateIndexes ==
  InitQuery("createIndexes", CreateIndexes(schema), AfterInitializeDatabase)

\* -------------------------------------------------- consumer: connectToKafka
C_ConsumerConnect ==
  /\ cpc = "consumerConnect"
  /\ ConsumerUnchangedBut(IF kafkaUp THEN "subscribe" ELSE "exited")
  /\ UNCHANGED <<sideVars, envVars, brokerVars, producerVars, storeVars>>

C_Subscribe ==
  /\ cpc = "subscribe"
  /\ ConsumerUnchangedBut(IF kafkaUp THEN AfterConnectToKafka ELSE "exited")
  /\ UNCHANGED <<sideVars, envVars, brokerVars, producerVars, storeVars>>

\* consumer.run({ eachMessage }): a rejection reaches main's catch.
C_Run ==
  /\ cpc = "consumerRun"
  /\ ConsumerUnchangedBut(IF kafkaUp THEN "running" ELSE "exited")
  /\ UNCHANGED <<sideVars, envVars, brokerVars, producerVars, storeVars>>

\* ------------------------------------------------------ consumer: handlers
\* The seven parameters processApiLog passes to its INSERT.
ApiLogParams(obj) ==
  [timestamp |-> Get(obj, "timestamp"),
   endpoint |-> Get(obj, "endpoint"),
   status |-> Or(Get(obj, "status"), Null),
   response_time |-> Or(Get(obj, "responseTime"), Null),
   method |-> Or(Get(obj, "method"), Null),
   error |-> Or(Get(obj, "error"), Null),
   error_code |-> Or(Get(obj, "errorCode"), Null)]

\* The five parameters processSystemMetrics passes to its INSERT.
MetricsParams(obj) ==
  [timestamp |-> Get(obj, "timestamp"),
   cpu |-> Get(obj, "cpu"),
   memory |-> Get(obj, "memory"),
   disk_usage |-> Get(obj, "diskUsage"),
   active_requests |-> Get(obj, "activeRequests")]

\* The api_logs row the store builds from the parameters, by column type.
ApiLogColumns(p) ==
  [timestamp |-> ToTimestamp(p.timestamp),
   endpoint |-> ToVarchar(p.endpoint),
   status |-> ToNumeric(p.status),
   response_time |-> ToNumeric(p.response_time),
   method |-> ToVarchar(p.method),
   error |-> ToVarchar(p.error),
   error_code |-> ToVarchar(p.error_code)]

\* The system_metrics row the store builds from the parameters.
MetricsColumns(p) ==
  [timestamp |-> ToTimestamp(p.timestamp),
   cpu |-> ToNumeric(p.cpu),
   memory |-> ToNumeric(p.memory),
   disk_usage |-> ToNumeric(p.disk_usage),
   active_requests |-> ToNumeric(p.active_requests)]

\* A store that also rejects every INSERT once one has failed.
RejectedOnceFailed(cols) ==
  \/ \E f \in DOMAIN cols : cols[f].t = "bad"
  \/ \E t \in topics : \E k \in 1..Len(handled[t]) :
       handled[t][k] = "insert_failed"
\* The store rejects a row with a value that is not of its column's type.
Rejected(cols) == \E f \in DOMAIN cols : cols[f].t = "bad"

Offset(t) == Len(handled[t])

\* The handler's catch of a parse error and the catch of processApiLog /
\* processSystemMetrics: the error is logged and the handler returns.
AfterHandlerErrorCrashing == "exited"
AfterHandlerError == "running"

\* The catch of processApiLog / processSystemMetrics, were it to leave the
\* INSERT in flight again.
AfterInsertFailureRetrying(c) == c
\* The catch of processApiLog / processSystemMetrics logs the error; the
\* function returns and so does the handler.
AfterInsertFailure(c) == Idle

\* An INSERT whose row goes in front of the rows already there.
RowsPrepended(rows, row) == <<row>> \o rows
\* An INSERT that is issued twice adds two rows.
RowsAppendedTwice(rows, row) == Append(Append(rows, row), row)
\* INSERT INTO table VALUES (...): one row is added.
RowsAppended(rows, row) == Append(rows, row)

\* eachMessage up to its first await: parse the value and route by topic.
C_EachMessage(t) ==
  /\ cpc = "running"
  /\ kafkaUp
  /\ cur.phase = "idle"
  /\ Offset(t) < Len(log[t])
  /\ LET value == log[t][Offset(t) + 1]
         data == JSONParse(value)
     IN IF ~data.ok
          THEN /\ handled' = [handled EXCEPT ![t] = Append(@, "parse_error")]
               /\ cur' = Idle
               /\ cpc' = AfterHandlerError
          ELSE /\ handled' = handled
               /\ cur' = [phase |-> "insert", topic |-> t, off |-> Offset(t) + 1,
                          row |-> IF t = API_LOGS
                                    THEN ApiLogColumns(ApiLogParams(data.obj))
                                    ELSE MetricsColumns(MetricsParams(data.obj))]
               /\ cpc' = cpc
  /\ UNCHANGED <<cRestarts, pgChecked, ckChecked, initDone, initRuns>>
  /\ UNCHANGED <<sideVars, envVars, brokerVars, producerVars, storeVars>>

\* The awaited pool.query of the handler settles; the handler returns.
C_InsertSettles ==
  /\ cur.phase = "insert"
  /\ LET t == cur.topic
         table == IF t = API_LOGS THEN "api_logs" ELSE "system_metrics"
         row == [id |-> serial[table], msg |-> <<t, cur.off>>] @@ cur.row
     IN IF pgUp /\ schema[table] > 0 /\ ~Rejected(cur.row)
          THEN /\ handled' = [handled EXCEPT ![t] = Append(@, "inserted")]
               /\ serial' = [serial EXCEPT ![table] = @ + 1]
               /\ IF t = API_LOGS
                    THEN /\ api_logs' = RowsAppended(api_logs, row)
                         /\ UNCHANGED system_metrics
                    ELSE /\ system_metrics' = RowsAppended(system_metrics, row)
                         /\ UNCHANGED api_logs
               /\ cpc' = cpc
               /\ cur' = Idle
          ELSE /\ handled' = [handled EXCEPT ![t] = Append(@, "insert_failed")]
               /\ UNCHANGED <<serial, api_logs, system_metrics>>
               /\ cpc' = AfterHandlerError
               /\ cur' = AfterInsertFailure(cur)
  /\ UNCHANGED <<cRestarts, pgChecked, ckChecked, initDone, initRuns, schema>>
  /\ UNCHANGED <<sideVars, envVars, brokerVars, producerVars>>

\* ------------------------------------------------------ consumer: shutdown
\* A call that closes a connection resolves or rejects.
CloseOutcomes == {"resolved", "rejected"}

\* SIGTERM or SIGINT, taken once consumer.run has resolved: shutdown awaits
\* consumer.disconnect().
S_Signal ==
  /\ cpc = "running"
  /\ sd = "none"
  /\ sd' = "disconnecting"
  /\ UNCHANGED <<closed, viewerVars, serviceVars>>
  /\ UNCHANGED <<envVars, brokerVars, producerVars, consumerVars, storeVars>>

\* consumer.disconnect() settles.  It resolves once the handler in flight has
\* returned, and shutdown awaits pool.end(); its rejection enters the catch,
\* which exits with status 1 (a handler still awaiting its INSERT ends with
\* the process).
S_DisconnectSettles ==
  /\ sd = "disconnecting"
  /\ \E o \in CloseOutcomes :
       IF o = "resolved"
         THEN /\ cur.phase = "idle"
              /\ closed' = closed \cup {"broker"}
              /\ sd' = "ending"
              /\ cpc' = "stopped"
              /\ cur' = cur
         ELSE /\ closed' = closed
              /\ sd' = "exit1"
              /\ cpc' = "exited"
              /\ cur' = Idle
  /\ UNCHANGED <<cRestarts, pgChecked, ckChecked, initDone, initRuns, handled>>
  /\ UNCHANGED <<viewerVars, serviceVars>>
  /\ UNCHANGED <<envVars, brokerVars, producerVars, storeVars>>

\* pool.end() settles: process.exit(0), or the catch and process.exit(1).
S_PoolEndSettles ==
  /\ sd = "ending"
  /\ \E o \in CloseOutcomes :
       IF o = "resolved"
         THEN /\ closed' = closed \cup {"store"}
              /\ sd' = "exit0"
         ELSE /\ closed' = closed
              /\ sd' = "exit1"
  /\ cpc' = "exited"
  /\ UNCHANGED <<cRestarts, pgChecked, ckChecked, initDone, initRuns, handled,
                 cur>>
  /\ UNCHANGED <<viewerVars, serviceVars>>
  /\ UNCHANGED <<envVars, brokerVars, producerVars, storeVars>>

\* ------------------------------------------------------- producer: values
endpoints == {"/", "/users", "/products", "/orders"}
\* response.status of a resolved axios.get, were axios to resolve on every
\* response.
OkStatusesUnvalidated == {200, 500}
\* response.status of a resolved axios.get (axios resolves on 2xx only).
OkStatuses == {200}
\* err.response.status of a rejected axios.get that got a response.
ErrorStatuses == {500}
\* response.headers['x-response-time'] when set, else
\* Math.floor(Math.random() * 200) + 50, which lies in 50..249.
ResponseTimes == {Str("12"), Num(50)}
\* new Date().toISOString(); the consumer's new Date(timestamp) reads it back.
Now == Num(1)

NoEvent == [f \in {} |-> Undef]

\* The probe's outcomes: a 2xx response, a response with another status,
\* a timeout, a refused connection.
ProbeOutcomes(up) ==
  IF up
    THEN [kind : {"ok"}, status : OkStatuses]
         \cup [kind : {"http_error"}, status : ErrorStatuses]
         \cup [kind : {"timeout"}, status : {0}]
    ELSE [kind : {"timeout", "refused"}, status : {0}]

\* err.message of the rejected probe or of the rejected producer.send.
ErrMessage(err) ==
  CASE err.kind = "http_error" ->
         Str("Request failed with status code " \o NumToStr(err.status))
    [] err.kind = "timeout" -> Str("timeout of 3000ms exceeded")
    [] err.kind = "refused" -> Str("connect ECONNREFUSED")
    [] OTHER -> Str("send failed")

\* err.response is set only for a probe that got a response.
HasResponse(err) == err.kind = "http_error"

\* The logEntry of the try block.
SuccessEntry(endpoint, status, responseTime) ==
  [timestamp |-> Now,
   endpoint |-> Str(endpoint),
   status |-> Num(status),
   responseTime |-> responseTime,
   method |-> Str("GET"),
   error |-> Undef,
   errorCode |-> Undef]

\* An error entry that also carries the status of the response.
ErrorEntryWithStatus(err) ==
  [timestamp |-> Now,
   endpoint |-> Undef,
   status |-> IF HasResponse(err) THEN Num(err.status) ELSE Undef,
   responseTime |-> Undef,
   method |-> Str("GET"),
   error |-> ErrMessage(err),
   errorCode |-> IF HasResponse(err) THEN Num(err.status)
                 ELSE Str("CONNECTION_ERROR")]

\* The logEntry of the catch block.
ErrorEntry(err) ==
  [timestamp |-> Now,
   endpoint |-> Undef,
   status |-> Undef,
   responseTime |-> Undef,
   method |-> Str("GET"),
   error |-> ErrMessage(err),
   errorCode |-> IF HasResponse(err) THEN Num(err.status)
                 ELSE Str("CONNECTION_ERROR")]

SendError == [kind |-> "send", status |-> 0]

\* producer.send({ topic, messages: [{ value: JSON.stringify(entry) }] })
Send(t, entry, src) == [log EXCEPT ![t] = Append(@, JsonMsg(entry, src))]

\* ------------------------------------------------ producer: waitForServices
\* waitForServices runs its broker loop, then its API loop.
AfterKafkaReadySkippingApi == "producerConnect"
AfterKafkaReady == "waHealth"

ProducerUnchangedBut(pc) ==
  /\ ppc' = pc
  /\ UNCHANGED <<pRestarts, adminConnectOk, healthOk, existingTopics,
                 createReq, logTimer, metricTimer, ticks, nMetricTicks>>

\* The producer process is started (main() at the end of the file).
P_Start ==
  /\ ppc = "exited"
  /\ pRestarts < MaxRestarts
  /\ pRestarts' = pRestarts + 1
  /\ ppc' = "wkConnect"
  /\ adminConnectOk' = FALSE /\ healthOk' = FALSE
  /\ existingTopics' = {}
  /\ logTimer' = FALSE /\ metricTimer' = FALSE
  /\ ticks' = <<>> /\ nMetricTicks' = 0
  /\ UNCHANGED createReq
  /\ UNCHANGED <<sideVars, envVars, brokerVars, consumerVars, storeVars>>

P_KafkaAdminConnect ==
  /\ ppc = "wkConnect"
  /\ ProducerUnchangedBut(IF kafkaUp THEN "wkDisconnect"
                          ELSE OnNotReady("wkSleep"))
  /\ UNCHANGED <<sideVars, envVars, brokerVars, consumerVars, storeVars>>

P_KafkaAdminDisconnect ==
  /\ ppc = "wkDisconnect"
  /\ IF kafkaUp
       THEN /\ adminConnectOk' = TRUE
            /\ ppc' = AfterKafkaReady
       ELSE /\ adminConnectOk' = adminConnectOk
            /\ ppc' = OnNotReady("wkSleep")
  /\ UNCHANGED <<pRestarts, healthOk, existingTopics, createReq, logTimer,
                 metricTimer, ticks, nMetricTicks>>
  /\ UNCHANGED <<sideVars, envVars, brokerVars, consumerVars, storeVars>>

P_KafkaBackoff ==
  /\ ppc = "wkSleep"
  /\ ProducerUnchangedBut("wkConnect")
  /\ UNCHANGED <<sideVars, envVars, brokerVars, consumerVars, storeVars>>

\* axios.get('http://api:3000/health', { timeout: 1000 })
P_Health ==
  /\ ppc = "waHealth"
  /\ IF apiUp
       THEN /\ healthOk' = TRUE
            /\ ppc' = "producerConnect"
       ELSE /\ healthOk' = healthOk
            /\ ppc' = OnNotReady("waSleep")
  /\ UNCHANGED <<pRestarts, adminConnectOk, existingTopics, createReq,
                 logTimer, metricTimer, ticks, nMetricTicks>>
  /\ UNCHANGED <<sideVars, envVars, brokerVars, consumerVars, storeVars>>

P_HealthBackoff ==
  /\ ppc = "waSleep"
  /\ ProducerUnchangedBut("waHealth")
  /\ UNCHANGED <<sideVars, envVars, brokerVars, consumerVars, storeVars>>

\* ------------------------------------------------- producer: connectToKafka
\* The topics connectToKafka asks the broker to create, without the filter.
TopicsToCreateUnfiltered(existing) == topics
\* Object.values(topics).filter(topic => !existingTopics.includes(topic))
TopicsToCreate(existing) == {t \in topics : t \notin existing}

\* admin.createTopics: the broker creates each requested topic; a request for
\* a name that exists is a duplicate-creation error.
CreateTopics(names, req) ==
  [names |-> [t \in topics |-> IF t \in req /\ names[t] = 0 THEN 1 ELSE names[t]],
   err |-> \E t \in req : names[t] > 0]

\* producer.connect()
P_ProducerConnect ==
  /\ ppc = "producerConnect"
  /\ ProducerUnchangedBut(IF kafkaUp THEN "adminConnect" ELSE "exited")
  /\ UNCHANGED <<sideVars, envVars, brokerVars, consumerVars, storeVars>>

\* admin.connect()
P_AdminConnect ==
  /\ ppc = "adminConnect"
  /\ ProducerUnchangedBut(IF kafkaUp THEN "listTopics" ELSE "exited")
  /\ UNCHANGED <<sideVars, envVars, brokerVars, consumerVars, storeVars>>

\* admin.listTopics()
P_ListTopics ==
  /\ ppc = "listTopics"
  /\ IF kafkaUp
       THEN /\ existingTopics' = {t \in topics : topicNames[t] > 0}
            /\ ppc' = "createTopics"
       ELSE /\ existingTopics' = existingTopics
            /\ ppc' = "exited"
  /\ UNCHANGED <<pRestarts, adminConnectOk, healthOk, createReq, logTimer,
                 metricTimer, ticks, nMetricTicks>>
  /\ UNCHANGED <<sideVars, envVars, brokerVars, consumerVars, storeVars>>

\* connectToKafka's catch, were it to log a rejected createTopics and go on.
AfterCreateTopicsFailureContinuing == "adminDisconnect"
\* connectToKafka's catch: process.exit(1).
AfterCreateTopicsFailure == "exited"

\* if (topicsToCreate.length > 0) await admin.createTopics(...)
P_CreateTopics ==
  /\ ppc = "createTopics"
  /\ LET req == TopicsToCreate(existingTopics)
         res == CreateTopics(topicNames, req)
     IN IF req = {}
          THEN /\ ppc' = "adminDisconnect"
               /\ UNCHANGED <<topicNames, createReq>>
          ELSE IF kafkaUp /\ ~res.err
            THEN /\ topicNames' = res.names
                 /\ createReq' = req
                 /\ ppc' = "adminDisconnect"
            ELSE /\ topicNames' = topicNames
                 /\ createReq' = req
                 /\ ppc' = AfterCreateTopicsFailure
  /\ UNCHANGED <<pRestarts, adminConnectOk, healthOk, existingTopics, logTimer,
                 metricTimer, ticks, nMetricTicks>>
  /\ UNCHANGED <<sideVars, envVars, log, consumerVars, storeVars>>

\* admin.disconnect()
P_AdminDisconnect ==
  /\ ppc = "adminDisconnect"
  /\ ppc' = IF kafkaUp THEN "installTimers" ELSE "exited"
  /\ existingTopics' = {}
  /\ UNCHANGED <<pRestarts, adminConnectOk, healthOk, createReq, logTimer,
                 metricTimer, ticks, nMetricTicks>>
  /\ UNCHANGED <<sideVars, envVars, brokerVars, consumerVars, storeVars>>

\* setInterval(collectApiLogs, 1000); setInterval(collectSystemMetrics, 5000)
P_InstallTimers ==
  /\ ppc = "installTimers"
  /\ ppc' = "running"
  /\ logTimer' = TRUE
  /\ metricTimer' = TRUE
  /\ UNCHANGED <<pRestarts, adminConnectOk, healthOk, existingTopics,
                 createReq, ticks, nMetricTicks>>
  /\ UNCHANGED <<sideVars, envVars, brokerVars, consumerVars, storeVars>>

\* ------------------------------------------------- producer: collectApiLogs
NoProbe == [kind |-> "none", status |-> 0]

SetTick(i, phase, probe, ev, sendFailed) ==
  ticks' = [ticks EXCEPT ![i] = [phase |-> phase, probe |-> probe, ev |-> ev,
                                 sendFailed |-> sendFailed]]

\* The phase of an invocation whose probe failed, were the catch block to
\* rethrow instead of sending.
AfterProbeFailureRethrowing == "done"
\* The catch block builds the error entry and awaits producer.send.
AfterProbeFailure == "sendingError"

\* A timer whose callback is skipped while an earlier invocation is in flight.
P_LogTickExclusive ==
  /\ logTimer
  /\ Len(ticks) < MaxTicks
  /\ \A i \in 1..Len(ticks) : ticks[i].phase = "done"
  /\ ticks' = Append(ticks, [phase |-> "probing", probe |-> NoProbe,
                             ev |-> NoEvent, sendFailed |-> FALSE])
  /\ UNCHANGED <<ppc, pRestarts, adminConnectOk, healthOk, existingTopics,
                 createReq, logTimer, metricTimer, nMetricTicks>>
  /\ UNCHANGED <<sideVars, envVars, brokerVars, consumerVars, storeVars>>

\* The 1-second timer fires: collectApiLogs awaits axios.get.  (The random
\* endpoint it picked first is drawn when the entry that carries it is built.)
P_LogTick ==
  /\ logTimer
  /\ Len(ticks) < MaxTicks
  /\ ticks' = Append(ticks, [phase |-> "probing", probe |-> NoProbe,
                             ev |-> NoEvent, sendFailed |-> FALSE])
  /\ UNCHANGED <<ppc, pRestarts, adminConnectOk, healthOk, existingTopics,
                 createReq, logTimer, metricTimer, nMetricTicks>>
  /\ UNCHANGED <<sideVars, envVars, brokerVars, consumerVars, storeVars>>

\* axios.get settles: the try block builds its entry and awaits producer.send,
\* or the catch block builds the error entry and awaits producer.send.
P_ProbeSettles(i) ==
  /\ ticks[i].phase = "probing"
  /\ \E o \in ProbeOutcomes(apiUp) :
       IF o.kind = "ok"
         THEN \E randomEndpoint \in endpoints, rt \in ResponseTimes :
                SetTick(i, "sending", o,
                        SuccessEntry(randomEndpoint, o.status, rt), FALSE)
         ELSE SetTick(i, AfterProbeFailure, o, ErrorEntry(o), FALSE)
  /\ UNCHANGED <<ppc, pRestarts, adminConnectOk, healthOk, existingTopics,
                 createReq, logTimer, metricTimer, nMetricTicks>>
  /\ UNCHANGED <<sideVars, envVars, brokerVars, consumerVars, storeVars>>

\* producer.send of the try block settles; its rejection enters the catch
\* block, which builds an error entry from it.
P_SendSettles(i) ==
  /\ ticks[i].phase = "sending"
  /\ IF kafkaUp
       THEN /\ log' = Send(API_LOGS, ticks[i].ev, i)
            /\ SetTick(i, "done", ticks[i].probe, NoEvent, FALSE)
       ELSE /\ log' = log
            /\ SetTick(i, "sendingError", ticks[i].probe,
                       ErrorEntry(SendError), FALSE)
  /\ UNCHANGED <<ppc, pRestarts, adminConnectOk, healthOk, existingTopics,
                 createReq, logTimer, metricTimer, nMetricTicks>>
  /\ UNCHANGED <<sideVars, envVars, topicNames, consumerVars, storeVars>>

\* producer.send of the catch block settles; its rejection is logged.
P_ErrorSendSettles(i) ==
  /\ ticks[i].phase = "sendingError"
  /\ IF kafkaUp
       THEN /\ log' = Send(API_LOGS, ticks[i].ev, i)
            /\ SetTick(i, "done", ticks[i].probe, NoEvent, FALSE)
       ELSE /\ log' = log
            /\ SetTick(i, "done", ticks[i].probe, NoEvent, TRUE)
  /\ UNCHANGED <<ppc, pRestarts, adminConnectOk, healthOk, existingTopics,
                 createReq, logTimer, metricTimer, nMetricTicks>>
  /\ UNCHANGED <<sideVars, envVars, topicNames, consumerVars, storeVars>>

\* ------------------------------------------- producer: collectSystemMetrics
\* Math.random(): a number in [0, 1), drawn as a fraction num/den.
RandomDraws ==
  {[num |-> 0, den |-> 1], [num |-> 1, den |-> 2], [num |-> 999, den |-> 1000]}
\* The draw followed where the sample's values do not matter.
MidDraw == {[num |-> 1, den |-> 2]}

\* The fields of a sample, carried by their integer part.
\* Math.random() * 100
Cpu(r) == (r.num * 100) \div r.den
Memory(r) == (r.num * 100) \div r.den
\* 50 + Math.random() * 300
DiskUsageWide(r) == (50 * r.den + r.num * 300) \div r.den
\* 50 + Math.random() * 30
DiskUsage(r) == (50 * r.den + r.num * 30) \div r.den
\* Math.floor(Math.random() * 50)
ActiveRequests(r) == (r.num * 50) \div r.den

Metrics(cpu, memory, diskUsage, activeRequests) ==
  [timestamp |-> Now,
   cpu |-> Num(cpu),
   memory |-> Num(memory),
   diskUsage |-> Num(diskUsage),
   activeRequests |-> Num(activeRequests)]

\* collectSystemMetrics builds a sample from four draws and sends it; a
\* rejected send is logged.
CollectSystemMetrics(draws) ==
  /\ metricTimer
  /\ nMetricTicks < MaxMetricTicks
  /\ nMetricTicks' = nMetricTicks + 1
  /\ \E c \in draws, m \in draws, d \in draws, a \in draws :
       IF kafkaUp
         THEN log' = Send(SYSTEM_METRICS,
                          Metrics(Cpu(c), Memory(m), DiskUsage(d),
                                  ActiveRequests(a)),
                          nMetricTicks + 1)
         ELSE log' = log
  /\ UNCHANGED <<ppc, pRestarts, adminConnectOk, healthOk, existingTopics,
                 createReq, logTimer, metricTimer, ticks>>
  /\ UNCHANGED <<sideVars, envVars, topicNames, consumerVars, storeVars>>

\* The 5-second timer fires.
P_MetricTick == CollectSystemMetrics(MidDraw)

\* The 5-second timer fires, with every draw followed.
P_MetricTickAnyDraw == CollectSystemMetrics(RandomDraws)

\* ----------------------------------------------------- other publishers
\* Values another client may publish to a topic.
PublishedValues(t) ==
  IF t = API_LOGS
    THEN {GarbageMsg,
          JsonMsg(SuccessEntry("/users", 200, Num(42)), 0),
          JsonMsg(SuccessEntry("/users", 200, Num(0)), 0),
          JsonMsg(ErrorEntry([kind |-> "http_error", status |-> 500]), 0)}
    ELSE {GarbageMsg,
          JsonMsg(Metrics(0, 61, 70, 7), 0)}

Publish(t) ==
  /\ Len(log[t]) < MaxMsgs
  /\ \E v \in PublishedValues(t) : log' = [log EXCEPT ![t] = Append(@, v)]
  /\ UNCHANGED <<sideVars, envVars, topicNames, producerVars, consumerVars,
                 storeVars>>

\* ------------------------------------------------------------ viewer: store
\* LIMIT 20 of the viewer's listing queries; response_time > 200.
PageSize == 20
SlowThreshold == 200

\* The store does not specify the order among rows with equal sort keys.
TieOrders == {"first_inserted", "last_inserted"}

Min(a, b) == IF a < b THEN a ELSE b
Max(a, b) == IF a > b THEN a ELSE b

\* WHERE p
Where(rows, P(_)) == SelectSeq(rows, P)

\* ORDER BY col dir, on a column that holds no NULL in rows.
OrderBy(rows, col, dir, tie) ==
  LET n == Len(rows)
      Precedes(i, j) ==
        LET a == rows[i][col].n
            b == rows[j][col].n
        IN IF a # b
             THEN (IF dir = "DESC" THEN a > b ELSE a < b)
             ELSE (IF tie = "first_inserted" THEN i < j ELSE i > j)
      Rank(i) == Cardinality({j \in 1..n : Precedes(j, i)})
  IN [k \in 1..n |-> rows[CHOOSE i \in 1..n : Rank(i) = k - 1]]

\* LIMIT n
Limit(rows, n) == SubSeq(rows, 1, Min(n, Len(rows)))

\* text LIKE '%part%', over texts that extend part by these affixes.
Affixes == {"", "/", "/1", "/api"}
Like(v, part) ==
  /\ v.t = "str"
  /\ \E pre \in Affixes, post \in Affixes : v.s = pre \o part \o post

\* WHERE response_time >= 200
IsSlowInclusive(row) ==
  row.response_time.t = "num" /\ row.response_time.n >= SlowThreshold
\* WHERE response_time > 200: NULL compares as unknown, which is not true.
IsSlow(row) ==
  row.response_time.t = "num" /\ row.response_time.n > SlowThreshold

\* WHERE error IS NOT NULL OR status >= 400
IsError(row) ==
  row.error.t # "null" \/ (row.status.t = "num" /\ row.status.n >= 400)

\* SELECT * FROM api_logs ORDER BY timestamp DESC LIMIT 20
RecentApiLogs(rows, tie) ==
  Limit(OrderBy(rows, "timestamp", "DESC", tie), PageSize)

\* SELECT * FROM system_metrics ORDER BY timestamp DESC LIMIT 20
RecentSystemMetrics(rows, tie) ==
  Limit(OrderBy(rows, "timestamp", "DESC", tie), PageSize)

\* SELECT * FROM api_logs WHERE endpoint LIKE $1 ORDER BY timestamp DESC
\* LIMIT 20, with $1 = `%${selectedEndpoint}%`
LogsByEndpoint(rows, selectedEndpoint, tie) ==
  LET Matches(row) == Like(row.endpoint, selectedEndpoint)
  IN Limit(OrderBy(Where(rows, Matches), "timestamp", "DESC", tie), PageSize)

\* SELECT * FROM api_logs WHERE status = $1 ORDER BY timestamp DESC LIMIT 20
LogsByStatus(rows, status, tie) ==
  LET Matches(row) == row.status.t = "num" /\ row.status.n = status
  IN Limit(OrderBy(Where(rows, Matches), "timestamp", "DESC", tie), PageSize)

\* SELECT * FROM api_logs WHERE response_time > 200
\* ORDER BY response_time DESC LIMIT 20
SlowResponses(rows, tie) ==
  Limit(OrderBy(Where(rows, IsSlow), "response_time", "DESC", tie), PageSize)

\* SELECT * FROM api_logs WHERE error IS NOT NULL OR status >= 400
\* ORDER BY timestamp DESC LIMIT 20
ErrorLogs(rows, tie) ==
  Limit(OrderBy(Where(rows, IsError), "timestamp", "DESC", tie), PageSize)

\* SELECT MAX(id) as max_id FROM api_logs: NULL on an empty table.
MaxId(rows) ==
  IF Len(rows) = 0 THEN Null
  ELSE Num(CHOOSE m \in {rows[j].id : j \in 1..Len(rows)} :
             \A j \in 1..Len(rows) : rows[j].id <= m)

\* SELECT * FROM api_logs WHERE id > $1 ORDER BY timestamp ASC
LogsAfter(rows, id, tie) ==
  LET IsNew(row) == row.id > id
  IN OrderBy(Where(rows, IsNew), "timestamp", "ASC", tie)

\* formatSystemMetric calls toFixed on cpu, memory and disk_usage, which
\* throws a TypeError on a NULL column.
FormatThrows(rows) ==
  \E j \in 1..Len(rows) :
    \E f \in {"cpu", "memory", "disk_usage"} : rows[j][f].t = "null"

\* ------------------------------------------------------------- viewer: CLI
\* The endpoints searchLogsByEndpoint offers, by the number to enter.
searchEndpoints == <<"/users", "/products", "/health", "/orders">>
\* What the user may type at a prompt.
MenuAnswers == {"1", "2", "3", "4", "5", "6", "7", "8", "x"}
EndpointAnswers == {"1", "4", "x"}
StatusAnswers == {"200", "500", "x"}

\* parseInt(text): NaN unless the text is a number.
ParseInt(text) == ParseNumber(text)

NoParam == Undef
NoRows == <<>>

\* The choices whose query is awaited inside handleMenuChoice's try block;
\* the queries of choices 3 and 4 run in a readline callback of their own.
AwaitedInTry == {"1", "2", "5", "6", "7"}

\* A rejected promise nobody handles: the runtime ends the process, or (by a
\* runtime setting) only warns, and then no prompt is ever shown again.
UnhandledRejection == {"crashed", "hung"}

ViewerAlive == vpc \notin {"closed", "crashed"}

\* start(): pool.connect() succeeds and the menu is shown, or the CLI closes.
V_Start ==
  /\ vpc = "start"
  /\ vpc' = IF pgUp THEN "menu" ELSE "closed"
  /\ UNCHANGED <<vchoice, vparam, vout, vresult, lastId, tailOn, polls, shown>>
  /\ UNCHANGED <<shutdownVars, serviceVars>>
  /\ UNCHANGED <<envVars, brokerVars, producerVars, consumerVars, storeVars>>

\* handleMenuChoice(choice) up to its first await.
V_Choose(choice) ==
  /\ vpc = "menu"
  /\ choice = "7" => (polls = <<>> /\ shown = <<>>)
  /\ vpc' = CASE choice \in {"1", "2", "5", "6", "7"} -> "querying"
              [] choice = "3" -> "endpointPrompt"
              [] choice = "4" -> "statusPrompt"
              [] choice = "8" -> "closed"
              [] OTHER -> "continue"
  /\ vchoice' = IF choice \in {"8", "x"} THEN "" ELSE choice
  /\ vparam' = NoParam
  /\ vout' = "none"
  /\ vresult' = NoRows
  /\ lastId' = IF choice = "7" THEN 0 ELSE lastId
  /\ UNCHANGED <<tailOn, polls, shown>>
  /\ UNCHANGED <<shutdownVars, serviceVars>>
  /\ UNCHANGED <<envVars, brokerVars, producerVars, consumerVars, storeVars>>

\* The callback of searchLogsByEndpoint's question, up to its await.
V_EndpointAnswer(num) ==
  /\ vpc = "endpointPrompt"
  /\ LET choice == ParseInt(num)
     IN IF choice.t # "num" \/ choice.n < 1 \/ choice.n > Len(searchEndpoints)
          THEN /\ vpc' = "continue"
               /\ vparam' = vparam
          ELSE /\ vpc' = "querying"
               /\ vparam' = Str(searchEndpoints[choice.n])
  /\ UNCHANGED <<vchoice, vout, vresult, lastId, tailOn, polls, shown>>
  /\ UNCHANGED <<shutdownVars, serviceVars>>
  /\ UNCHANGED <<envVars, brokerVars, producerVars, consumerVars, storeVars>>

\* The callback of searchLogsByStatus's question, up to its await.
V_StatusAnswer(status) ==
  /\ vpc = "statusPrompt"
  /\ vpc' = "querying"
  /\ vparam' = ParseInt(status)
  /\ UNCHANGED <<vchoice, vout, vresult, lastId, tailOn, polls, shown>>
  /\ UNCHANGED <<shutdownVars, serviceVars>>
  /\ UNCHANGED <<envVars, brokerVars, producerVars, consumerVars, storeVars>>

\* The rows the query of a choice returns.
QueryRows(choice, param, tie) ==
  CASE choice = "1" -> RecentApiLogs(api_logs, tie)
    [] choice = "2" -> RecentSystemMetrics(system_metrics, tie)
    [] choice = "3" -> LogsByEndpoint(api_logs, param.s, tie)
    [] choice = "4" -> LogsByStatus(api_logs, param.n, tie)
    [] choice = "5" -> SlowResponses(api_logs, tie)
    [] choice = "6" -> ErrorLogs(api_logs, tie)
    [] OTHER -> NoRows

\* pool.query rejects when the store is down, the table is missing or a
\* parameter is not of the column's type (NaN for an INTEGER).
QueryFails(choice, param) ==
  \/ ~pgUp
  \/ schema[IF choice = "2" THEN "system_metrics" ELSE "api_logs"] = 0
  \/ param.t = "bad"

\* The awaited pool.query of a menu choice settles.  A failure is caught by
\* handleMenuChoice when the query was awaited inside its try block.
V_QuerySettles ==
  /\ vpc = "querying"
  /\ \E tie \in TieOrders :
       LET rows == QueryRows(vchoice, vparam, tie)
           failed == QueryFails(vchoice, vparam)
           thrown == failed \/ (vchoice = "2" /\ FormatThrows(rows))
       IN IF thrown /\ vchoice \notin AwaitedInTry
            THEN /\ vpc' \in UnhandledRejection
                 /\ vout' = "unhandled"
                 /\ UNCHANGED <<vresult, lastId, tailOn>>
            ELSE IF thrown
              THEN /\ vpc' = "continue"
                   /\ vout' = "error"
                   /\ UNCHANGED <<vresult, lastId, tailOn>>
              ELSE IF vchoice = "7"
                THEN /\ vpc' = "tailing"
                     /\ vout' = "rows"
                     /\ lastId' = IF MaxId(api_logs).t = "num"
                                    /\ MaxId(api_logs).n # 0
                                    THEN MaxId(api_logs).n ELSE 0
                     /\ tailOn' = TRUE
                     /\ UNCHANGED vresult
                ELSE /\ vpc' = "continue"
                     /\ vout' = "rows"
                     /\ vresult' = rows
                     /\ UNCHANGED <<lastId, tailOn>>
  /\ UNCHANGED <<vchoice, vparam, polls, shown>>
  /\ UNCHANGED <<shutdownVars, serviceVars>>
  /\ UNCHANGED <<envVars, brokerVars, producerVars, consumerVars, storeVars>>

\* promptToContinue's callback: Enter shows the main menu.
V_Continue ==
  /\ vpc = "continue"
  /\ vpc' = "menu"
  /\ vchoice' = "" /\ vparam' = NoParam
  /\ vout' = "none" /\ vresult' = NoRows
  /\ UNCHANGED <<lastId, tailOn, polls, shown>>
  /\ UNCHANGED <<shutdownVars, serviceVars>>
  /\ UNCHANGED <<envVars, brokerVars, producerVars, consumerVars, storeVars>>

\* tailLogs' interval fires: the callback awaits its query for rows after
\* lastId.
V_TailTick ==
  /\ ViewerAlive
  /\ tailOn
  /\ Len(polls) < MaxPolls
  /\ polls' = Append(polls, [phase |-> "querying", after |-> lastId])
  /\ UNCHANGED <<vpc, vchoice, vparam, vout, vresult, lastId, tailOn, shown>>
  /\ UNCHANGED <<shutdownVars, serviceVars>>
  /\ UNCHANGED <<envVars, brokerVars, producerVars, consumerVars, storeVars>>

\* The query of an interval callback settles: each row is displayed and
\* lastId raised to its id; a failure is logged.
V_TailPollSettles(i) ==
  /\ ViewerAlive
  /\ polls[i].phase = "querying"
  /\ polls' = [polls EXCEPT ![i].phase = "done"]
  /\ IF QueryFails("7", NoParam)
       THEN UNCHANGED <<shown, lastId>>
       ELSE \E tie \in TieOrders :
              LET newLogs == LogsAfter(api_logs, polls[i].after, tie)
              IN /\ shown' = shown \o [k \in 1..Len(newLogs) |-> newLogs[k].id]
                 /\ lastId' = IF Len(newLogs) = 0 THEN lastId
                              ELSE Max(lastId, MaxId(newLogs).n)
  /\ UNCHANGED <<vpc, vchoice, vparam, vout, vresult, tailOn>>
  /\ UNCHANGED <<shutdownVars, serviceVars>>
  /\ UNCHANGED <<envVars, brokerVars, producerVars, consumerVars, storeVars>>

\* A 60-second timer that prompts without clearing the interval.
V_TailTimeoutKeepsInterval ==
  /\ vpc = "tailing"
  /\ tailOn
  /\ vpc' = "continue"
  /\ UNCHANGED <<vchoice, vparam, vout, vresult, lastId, tailOn, polls, shown>>
  /\ UNCHANGED <<shutdownVars, serviceVars>>
  /\ UNCHANGED <<envVars, brokerVars, producerVars, consumerVars, storeVars>>

\* tailLogs' 60-second timer fires: clearInterval and promptToContinue.
V_TailTimeout ==
  /\ vpc = "tailing"
  /\ tailOn
  /\ tailOn' = FALSE
  /\ vpc' = "continue"
  /\ UNCHANGED <<vchoice, vparam, vout, vresult, lastId, polls, shown>>
  /\ UNCHANGED <<shutdownVars, serviceVars>>
  /\ UNCHANGED <<envVars, brokerVars, producerVars, consumerVars, storeVars>>

\* process.on('SIGINT'): pool.end() and process.exit(0).
V_Sigint ==
  /\ ViewerAlive
  /\ vpc # "start"
  /\ vpc' = "closed"
  /\ tailOn' = FALSE
  /\ UNCHANGED <<vchoice, vparam, vout, vresult, lastId, polls, shown>>
  /\ UNCHANGED <<shutdownVars, serviceVars>>
  /\ UNCHANGED <<envVars, brokerVars, producerVars, consumerVars, storeVars>>

\* ------------------------------------------------------------ demo service
\* Math.floor(Math.random() * 1000)
RandomIds == {0, 999}
\* The fields a client may put in the body of POST /orders, and their values.
OrderFields == {"user_id", "product_id", "quantity", "id"}
OrderValues == {Num(0), Num(1)}
OrderBodies ==
  UNION {[S -> OrderValues] : S \in SUBSET OrderFields}

\* res.status(500).json({ error: 'Internal server error' }) of the error
\* middleware, reached when simulateLatency throws.
InternalError ==
  [status |-> 500, body |-> [error |-> Str("Internal server error")]]

Response(status, body) == [status |-> status, body |-> body]

\* The handler of POST /orders.  express.json() leaves req.body an object,
\* empty when the request carries none.
PostOrders(body, randomError, id) ==
  IF randomError THEN InternalError
  ELSE IF ~Truthy(Get(body, "user_id")) \/ ~Truthy(Get(body, "product_id"))
    THEN Response(400, [error |-> Str("Invalid order data")])
    ELSE Response(201, body @@ [id |-> Num(id), createdAt |-> Now])

\* The handler of GET /orders/:id.
GetOrderById(id, randomError) ==
  IF randomError THEN InternalError
  ELSE IF id.t # "num" \/ id.n <= 0
    THEN Response(400, [error |-> Str("Invalid order ID")])
    ELSE IF id.n > 100
      THEN Response(404, [error |-> Str("Order not found")])
      ELSE Response(200, [id |-> id])

Request(route, body) == [route |-> route, body |-> body]
NoBody == [f \in {} |-> Undef]

A_PostOrders ==
  /\ \E body \in OrderBodies, randomError \in BOOLEAN, id \in RandomIds :
       /\ apiReq' = Request("POST /orders", body)
       /\ apiRes' = PostOrders(body, randomError, id)
  /\ UNCHANGED <<shutdownVars, viewerVars>>
  /\ UNCHANGED <<envVars, brokerVars, producerVars, consumerVars, storeVars>>

\* GET /, /users, /products, /orders: the list, or 500 when simulateLatency
\* throws.
A_Get ==
  /\ \E path \in endpoints, randomError \in BOOLEAN :
       /\ apiReq' = Request("GET " \o path, NoBody)
       /\ apiRes' = IF randomError THEN InternalError
                    ELSE Response(200, NoBody)
  /\ UNCHANGED <<shutdownVars, viewerVars>>
  /\ UNCHANGED <<envVars, brokerVars, producerVars, consumerVars, storeVars>>

A_GetOrderById ==
  /\ \E text \in {"0", "7", "500", "x"}, randomError \in BOOLEAN :
       /\ apiReq' = Request("GET /orders/" \o text, NoBody)
       /\ apiRes' = GetOrderById(ParseNumber(text), randomError)
  /\ UNCHANGED <<shutdownVars, viewerVars>>
  /\ UNCHANGED <<envVars, brokerVars, producerVars, consumerVars, storeVars>>

\* GET /error and GET /health.
A_Error ==
  /\ apiReq' = Request("GET /error", NoBody)
  /\ apiRes' = InternalError
  /\ UNCHANGED <<shutdownVars, viewerVars>>
  /\ UNCHANGED <<envVars, brokerVars, producerVars, consumerVars, storeVars>>

A_Health ==
  /\ apiReq' = Request("GET /health", NoBody)
  /\ apiRes' = Response(200, [status |-> Str("UP")])
  /\ UNCHANGED <<shutdownVars, viewerVars>>
  /\ UNCHANGED <<envVars, brokerVars, producerVars, consumerVars, storeVars>>

\* --------------------------------------------------------- specifications
EnvKafka ==
  /\ KafkaFlip
  /\ UNCHANGED <<sideVars, brokerVars, producerVars, consumerVars, storeVars>>
EnvApi ==
  /\ ApiFlip
  /\ UNCHANGED <<sideVars, brokerVars, producerVars, consumerVars, storeVars>>
EnvPg ==
  /\ PgFlip
  /\ UNCHANGED <<sideVars, brokerVars, producerVars, consumerVars, storeVars>>

ProducerStart ==
  /\ ppc = "wkConnect" /\ pRestarts = 0
  /\ adminConnectOk = FALSE /\ healthOk = FALSE
  /\ existingTopics = {} /\ createReq = {}
  /\ logTimer = FALSE /\ metricTimer = FALSE
  /\ ticks = <<>> /\ nMetricTicks = 0

ConsumerStart ==
  /\ cpc = "wpConnect" /\ cRestarts = 0
  /\ pgChecked = FALSE /\ ckChecked = FALSE /\ initDone = FALSE
  /\ initRuns = 0
  /\ handled = [t \in topics |-> <<>>]
  /\ cur = Idle

StoreStart ==
  /\ api_logs = <<>> /\ system_metrics = <<>>
  /\ serial = [t \in Tables |-> 1]

ShutdownStart == sd = "none" /\ closed = {}

ViewerStart ==
  /\ vpc = "start" /\ vchoice = "" /\ vparam = NoParam
  /\ vout = "none" /\ vresult = NoRows
  /\ lastId = 0 /\ tailOn = FALSE /\ polls = <<>> /\ shown = <<>>

ServiceStart == apiReq = Request("", NoBody) /\ apiRes = Response(0, NoBody)

SideStart == ShutdownStart /\ ViewerStart /\ ServiceStart

\* One run of the producer, against a broker and a demo API that come and go.
ProducerInit ==
  /\ kafkaUp \in BOOLEAN /\ apiUp \in BOOLEAN /\ pgUp = TRUE
  /\ topicNames = [t \in topics |-> 0]
  /\ log = [t \in topics |-> <<>>]
  /\ schema = NoSchema
  /\ ProducerStart /\ ConsumerStart /\ StoreStart /\ SideStart

ProducerNext ==
  \/ EnvKafka \/ EnvApi
  \/ P_KafkaAdminConnect \/ P_KafkaAdminDisconnect \/ P_KafkaBackoff
  \/ P_Health \/ P_HealthBackoff
  \/ P_ProducerConnect \/ P_AdminConnect \/ P_ListTopics \/ P_CreateTopics
  \/ P_AdminDisconnect \/ P_InstallTimers
  \/ P_LogTick
  \/ \E i \in 1..Len(ticks) :
       P_ProbeSettles(i) \/ P_SendSettles(i) \/ P_ErrorSendSettles(i)
  \/ P_MetricTick

ProducerSpec == ProducerInit /\ [][ProducerNext]_vars

\* One run of the consumer, against a broker and a store that come and go,
\* with other clients publishing to the two topics.
ConsumerInit ==
  /\ kafkaUp \in BOOLEAN /\ pgUp \in BOOLEAN /\ apiUp = TRUE
  /\ topicNames = [t \in topics |-> 1]
  /\ log = [t \in topics |-> <<>>]
  /\ schema \in {NoSchema, FullSchema}
  /\ ProducerStart /\ ConsumerStart /\ StoreStart /\ SideStart

ConsumerNext ==
  \/ EnvKafka \/ EnvPg
  \/ C_PgConnect \/ C_PgQuery \/ C_PgBackoff
  \/ C_KafkaAdminConnect \/ C_KafkaAdminDisconnect \/ C_KafkaBackoff
  \/ C_CreateApiLogs \/ C_CreateSystemMetrics \/ C_CreateIndexes
  \/ C_ConsumerConnect \/ C_Subscribe \/ C_Run
  \/ \E t \in topics : Publish(t) \/ C_EachMessage(t)
  \/ C_InsertSettles

ConsumerSpec == ConsumerInit /\ [][ConsumerNext]_vars

\* connectToKafka of the producer run again and again, from any set of
\* existing topics.
TopicInit ==
  /\ kafkaUp \in BOOLEAN /\ apiUp \in BOOLEAN /\ pgUp = TRUE
  /\ topicNames \in [topics -> {0, 1}]
  /\ log = [t \in topics |-> <<>>]
  /\ schema = NoSchema
  /\ ProducerStart /\ ConsumerStart /\ StoreStart /\ SideStart

TopicNext ==
  \/ EnvKafka \/ EnvApi
  \/ P_Start
  \/ P_KafkaAdminConnect \/ P_KafkaAdminDisconnect \/ P_KafkaBackoff
  \/ P_Health \/ P_HealthBackoff
  \/ P_ProducerConnect \/ P_AdminConnect \/ P_ListTopics \/ P_CreateTopics
  \/ P_AdminDisconnect \/ P_InstallTimers

TopicSpec == TopicInit /\ [][TopicNext]_vars

\* The consumer started again and again, against a store that is fresh or
\* already initialized.
SchemaInit ==
  /\ kafkaUp \in BOOLEAN /\ pgUp \in BOOLEAN /\ apiUp = TRUE
  /\ topicNames = [t \in topics |-> 1]
  /\ log = [t \in topics |-> <<>>]
  /\ schema \in {NoSchema, FullSchema}
  /\ ProducerStart /\ ConsumerStart /\ StoreStart /\ SideStart

SchemaNext ==
  \/ EnvKafka \/ EnvPg
  \/ C_Start
  \/ C_PgConnect \/ C_PgQuery \/ C_PgBackoff
  \/ C_KafkaAdminConnect \/ C_KafkaAdminDisconnect \/ C_KafkaBackoff
  \/ C_CreateApiLogs \/ C_CreateSystemMetrics \/ C_CreateIndexes
  \/ C_ConsumerConnect \/ C_Subscribe \/ C_Run

SchemaSpec == SchemaInit /\ [][SchemaNext]_vars

\* The startup of both processes, one run each; the event loop runs every
\* continuation that is ready.
StartupInit ==
  /\ kafkaUp \in BOOLEAN /\ apiUp \in BOOLEAN /\ pgUp \in BOOLEAN
  /\ topicNames = [t \in topics |-> 0]
  /\ log = [t \in topics |-> <<>>]
  /\ schema = NoSchema
  /\ ProducerStart /\ ConsumerStart /\ StoreStart /\ SideStart

ProducerStartupStep ==
  \/ P_KafkaAdminConnect \/ P_KafkaAdminDisconnect \/ P_KafkaBackoff
  \/ P_Health \/ P_HealthBackoff
  \/ P_ProducerConnect \/ P_AdminConnect \/ P_ListTopics \/ P_CreateTopics
  \/ P_AdminDisconnect \/ P_InstallTimers

ConsumerStartupStep ==
  \/ C_PgConnect \/ C_PgQuery \/ C_PgBackoff
  \/ C_KafkaAdminConnect \/ C_KafkaAdminDisconnect \/ C_KafkaBackoff
  \/ C_CreateApiLogs \/ C_CreateSystemMetrics \/ C_CreateIndexes
  \/ C_ConsumerConnect \/ C_Subscribe \/ C_Run

StartupNext ==
  \/ EnvKafka \/ EnvApi \/ EnvPg
  \/ ProducerStartupStep
  \/ ConsumerStartupStep

StartupSpec ==
  /\ StartupInit /\ [][StartupNext]_vars
  /\ WF_vars(ProducerStartupStep)
  /\ WF_vars(ConsumerStartupStep)

\* The consumer running, with other clients publishing, until a signal shuts
\* it down.
ShutdownNext ==
  \/ EnvKafka \/ EnvPg
  \/ C_PgConnect \/ C_PgQuery \/ C_PgBackoff
  \/ C_KafkaAdminConnect \/ C_KafkaAdminDisconnect \/ C_KafkaBackoff
  \/ C_CreateApiLogs \/ C_CreateSystemMetrics \/ C_CreateIndexes
  \/ C_ConsumerConnect \/ C_Subscribe \/ C_Run
  \/ \E t \in topics : Publish(t) \/ C_EachMessage(t)
  \/ C_InsertSettles
  \/ S_Signal \/ S_DisconnectSettles \/ S_PoolEndSettles

ShutdownSpec == ConsumerInit /\ [][ShutdownNext]_vars

\* The events behind the rows of a sample table, by row number.
SamplePatterns == {"mixed", "slow", "edge"}
SampleEvent(p, j) ==
  CASE p = "mixed" ->
         CASE j = 1 -> SuccessEntry("/users", 200, Num(150))
           [] j = 2 -> SuccessEntry("/orders", 200, Num(250))
           [] j = 3 -> ErrorEntry([kind |-> "http_error", status |-> 500])
           [] j = 4 -> SuccessEntry("/", 200, Num(200))
           [] OTHER -> SuccessEntry("/users", 200, Num(200 + j))
    [] p = "slow" -> SuccessEntry("/products", 200, Num(200 + j))
    [] OTHER ->
         IF j % 4 = 1 THEN ErrorEntry([kind |-> "http_error", status |-> 500])
         ELSE SuccessEntry("/", 200, Num(IF j % 4 = 2 THEN 200 ELSE 300))

\* The row the consumer stores for an event, the id-th of its table,
\* received at time id.
StoredApiLog(id, entry) ==
  [id |-> id, msg |-> <<API_LOGS, id>>]
    @@ ApiLogColumns(ApiLogParams(
         Stringify([entry EXCEPT !.timestamp = Num(id)])))

StoredMetrics(id, entry) ==
  [id |-> id, msg |-> <<SYSTEM_METRICS, id>>]
    @@ MetricsColumns(MetricsParams(Stringify(entry)))

SampleApiLogs ==
  {[j \in 1..n |-> StoredApiLog(j, SampleEvent(p, j))] :
     p \in SamplePatterns, n \in 0..MaxRows}

SampleSystemMetrics ==
  {<<>>,
   <<StoredMetrics(1, Metrics(0, 61, 70, 7))>>,
   <<StoredMetrics(1, Metrics(0, 61, 70, 7)),
     StoredMetrics(2, [timestamp |-> Now])>>}

\* The viewer against a store the consumer has filled, which comes and goes.
ViewerInit ==
  /\ kafkaUp = TRUE /\ apiUp = TRUE /\ pgUp \in BOOLEAN
  /\ topicNames = [t \in topics |-> 1]
  /\ log = [t \in topics |-> <<>>]
  /\ schema = FullSchema
  /\ api_logs \in SampleApiLogs
  /\ system_metrics \in SampleSystemMetrics
  /\ serial = [t \in Tables |->
                 IF t = "api_logs" THEN Len(api_logs) + 1
                 ELSE Len(system_metrics) + 1]
  /\ ProducerStart /\ ConsumerStart /\ SideStart

ViewerNext ==
  \/ EnvPg
  \/ V_Start
  \/ \E choice \in MenuAnswers : V_Choose(choice)
  \/ \E num \in EndpointAnswers : V_EndpointAnswer(num)
  \/ \E status \in StatusAnswers : V_StatusAnswer(status)
  \/ V_QuerySettles
  \/ V_Continue
  \/ V_TailTick
  \/ \E i \in 1..Len(polls) : V_TailPollSettles(i)
  \/ V_TailTimeout
  \/ V_Sigint

ViewerSpec == ViewerInit /\ [][ViewerNext]_vars

\* The viewer tailing api_logs while the running consumer stores the events
\* other clients publish.
TailStores ==
  {<<>>,
   <<[StoredApiLog(1, SampleEvent("mixed", 1)) EXCEPT !.msg = <<API_LOGS, 0>>]>>}

TailInit ==
  /\ kafkaUp = TRUE /\ apiUp = TRUE /\ pgUp \in BOOLEAN
  /\ topicNames = [t \in topics |-> 1]
  /\ log = [t \in topics |-> <<>>]
  /\ schema = FullSchema
  /\ api_logs \in TailStores
  /\ system_metrics = <<>>
  /\ serial = [t \in Tables |->
                 IF t = "api_logs" THEN Len(api_logs) + 1 ELSE 1]
  /\ cpc = "running" /\ cRestarts = 0
  /\ pgChecked = TRUE /\ ckChecked = TRUE /\ initDone = TRUE
  /\ initRuns = 1
  /\ handled = [t \in topics |-> <<>>]
  /\ cur = Idle
  /\ ProducerStart /\ SideStart

\* Another client publishes a probe result to api-logs.
PublishApiLog ==
  /\ Publish(API_LOGS)
  /\ log'[API_LOGS] =
       Append(log[API_LOGS], JsonMsg(SuccessEntry("/users", 200, Num(42)), 0))

TailNext ==
  \/ EnvPg
  \/ PublishApiLog \/ C_EachMessage(API_LOGS) \/ C_InsertSettles
  \/ V_Start
  \/ V_Choose("7")
  \/ V_QuerySettles
  \/ V_Continue
  \/ V_TailTick
  \/ \E i \in 1..Len(polls) : V_TailPollSettles(i)
  \/ V_TailTimeout
  \/ V_Sigint

TailSpec == TailInit /\ [][TailNext]_vars

\* The 60-second timer of tailLogs fires once it is due.
TailFairSpec == TailSpec /\ WF_vars(V_TailTimeout)

\* The demo service answering requests.
ServiceInit ==
  /\ kafkaUp = TRUE /\ apiUp = TRUE /\ pgUp = TRUE
  /\ topicNames = [t \in topics |-> 0]
  /\ log = [t \in topics |-> <<>>]
  /\ schema = NoSchema
  /\ ProducerStart /\ ConsumerStart /\ StoreStart /\ SideStart

ServiceNext ==
  \/ A_PostOrders \/ A_Get \/ A_GetOrderById \/ A_Error \/ A_Health

ServiceSpec == ServiceInit /\ [][ServiceNext]_vars

\* Both processes, one run each, against a broker and a store that come and
\* go; another client publishes texts that are not JSON.  The probe timer is
\* followed for one invocation (ProducerSpec follows overlapping ones).
PipelineInit ==
  /\ kafkaUp \in BOOLEAN /\ pgUp \in BOOLEAN /\ apiUp \in BOOLEAN
  /\ topicNames = [t \in topics |-> 0]
  /\ log = [t \in topics |-> <<>>]
  /\ schema = NoSchema
  /\ ProducerStart /\ ConsumerStart /\ StoreStart /\ SideStart

\* The first invocation of collectApiLogs of the run.
P_FirstLogTick == P_LogTick /\ ticks = <<>>

PublishGarbage(t) ==
  /\ Publish(t)
  /\ log'[t] = Append(log[t], GarbageMsg)

\* The demo API comes and goes; the pipeline follows it where the producer is
\* about to ask it something (the health wait, a probe in flight), which is
\* where its availability is read.
EnvApiWhenAsked ==
  /\ EnvApi
  /\ \/ ppc = "waHealth"
     \/ \E i \in 1..Len(ticks) : ticks[i].phase = "probing"

PipelineNext ==
  \/ EnvKafka \/ EnvPg \/ EnvApiWhenAsked
  \/ P_KafkaAdminConnect \/ P_KafkaAdminDisconnect \/ P_KafkaBackoff
  \/ P_Health \/ P_HealthBackoff
  \/ P_ProducerConnect \/ P_AdminConnect \/ P_ListTopics \/ P_CreateTopics
  \/ P_AdminDisconnect \/ P_InstallTimers
  \/ P_FirstLogTick
  \/ \E i \in 1..Len(ticks) :
       P_ProbeSettles(i) \/ P_SendSettles(i) \/ P_ErrorSendSettles(i)
  \/ P_MetricTick
  \/ C_PgConnect \/ C_PgQuery \/ C_PgBackoff
  \/ C_KafkaAdminConnect \/ C_KafkaAdminDisconnect \/ C_KafkaBackoff
  \/ C_CreateApiLogs \/ C_CreateSystemMetrics \/ C_CreateIndexes
  \/ C_ConsumerConnect \/ C_Subscribe \/ C_Run
  \/ \E t \in topics : PublishGarbage(t) \/ C_EachMessage(t)
  \/ C_InsertSettles

PipelineSpec == PipelineInit /\ [][PipelineNext]_vars

\* One run of the producer with its metrics timer, every draw followed.
MetricsNext ==
  \/ EnvKafka \/ EnvApi
  \/ P_KafkaAdminConnect \/ P_KafkaAdminDisconnect \/ P_KafkaBackoff
  \/ P_Health \/ P_HealthBackoff
  \/ P_ProducerConnect \/ P_AdminConnect \/ P_ListTopics \/ P_CreateTopics
  \/ P_AdminDisconnect \/ P_InstallTimers
  \/ P_MetricTickAnyDraw

MetricsSpec == ProducerInit /\ [][MetricsNext]_vars

\* ================================================================= claims
\* The text of a value: NULL for an absent field, the decimal text of a
\* number, the text itself.  Two values are the same datum when their texts
\* agree (500 and '500', "12" and 12).
TextOf(v) ==
  CASE v.t \in {"undef", "null"} -> Null
    [] v.t = "num" -> Str(NumToStr(v.n))
    [] OTHER -> v
SameDatum(a, b) == TextOf(a) = TextOf(b)

\* The message a row was written for.
MessageOf(row) == log[row.msg[1]][row.msg[2]]

RowsFor(t, k) ==
  LET rows == IF t = API_LOGS THEN api_logs ELSE system_metrics
  IN {j \in 1..Len(rows) : rows[j].msg = <<t, k>>}

JsonAt(t, k) == log[t][k].text = "json"

\* C1: every row the consumer has inserted carries the fields of the event it
\* was written for: endpoint, status, responseTime, method, error, errorCode
\* in api_logs; cpu, memory, diskUsage, activeRequests in system_metrics.
C1_RoundTrip ==
  /\ \A j \in 1..Len(api_logs) :
       LET row == api_logs[j]
           ev == MessageOf(row).obj
       IN /\ SameDatum(row.endpoint, Get(ev, "endpoint"))
          /\ SameDatum(row.status, Get(ev, "status"))
          /\ SameDatum(row.response_time, Get(ev, "responseTime"))
          /\ SameDatum(row.method, Get(ev, "method"))
          /\ SameDatum(row.error, Get(ev, "error"))
          /\ SameDatum(row.error_code, Get(ev, "errorCode"))
  /\ \A j \in 1..Len(system_metrics) :
       LET row == system_metrics[j]
           ev == MessageOf(row).obj
       IN /\ SameDatum(row.cpu, Get(ev, "cpu"))
          /\ SameDatum(row.memory, Get(ev, "memory"))
          /\ SameDatum(row.disk_usage, Get(ev, "diskUsage"))
          /\ SameDatum(row.active_requests, Get(ev, "activeRequests"))

\* C2 as stated: every event the consumer has handled has exactly one row in
\* the table of its topic.
C2_ExactlyOneRow ==
  \A t \in topics : \A k \in 1..Offset(t) :
    JsonAt(t, k) => Cardinality(RowsFor(t, k)) = 1

\* C2, amended: a message delivered to eachMessage has at most one row:
\* exactly one once it was handled, its body parsed and its INSERT succeeded,
\* none otherwise (the INSERT failed, or it is not handled yet).
C2_AtMostOneRow ==
  \A t \in topics : \A k \in 1..Len(log[t]) :
    LET n == Cardinality(RowsFor(t, k))
    IN IF k <= Offset(t) /\ handled[t][k] = "inserted" THEN n = 1 ELSE n = 0

C2_Witness ==
  \E t \in topics : \E j, k \in 1..Offset(t) :
    /\ handled[t][j] = "insert_failed" /\ JsonAt(t, j)
    /\ handled[t][k] = "inserted"

\* C3: a message whose body is not JSON is discarded: once handled it has no
\* row in either table, its handler returned, and the consumer has not exited.
C3_MalformedDiscarded ==
  \A t \in topics : \A k \in 1..Offset(t) :
    ~JsonAt(t, k) =>
      /\ handled[t][k] = "parse_error"
      /\ \A j \in 1..Len(api_logs) : api_logs[j].msg # <<t, k>>
      /\ \A j \in 1..Len(system_metrics) : system_metrics[j].msg # <<t, k>>
      /\ cpc = "running"

C3_Witness ==
  /\ \A t \in topics : Offset(t) >= 2 /\ ~JsonAt(t, 1) /\ JsonAt(t, 2)
  /\ Len(api_logs) = 1 /\ Len(system_metrics) = 1

\* A field of an event is populated when it is neither absent nor null.
Populated(ev, f) == Get(ev, f).t \notin {"undef", "null"}

ExactlyOneGroup(ev) ==
  \/ /\ Populated(ev, "status") /\ Populated(ev, "responseTime")
     /\ ~Populated(ev, "error") /\ ~Populated(ev, "errorCode")
  \/ /\ Populated(ev, "error") /\ Populated(ev, "errorCode")
     /\ ~Populated(ev, "status") /\ ~Populated(ev, "responseTime")

\* The messages on api-logs sent by invocation i of collectApiLogs.
SentBy(i) ==
  {k \in 1..Len(log[API_LOGS]) : log[API_LOGS][k].src = i}

\* C4: every entry collectApiLogs builds, and every one it publishes, has
\* exactly one of {status, responseTime} and {error, errorCode} populated.
C4_ExactlyOneGroup ==
  /\ \A i \in 1..Len(ticks) :
       ticks[i].phase \in {"sending", "sendingError"} =>
         ExactlyOneGroup(ticks[i].ev)
  /\ \A k \in 1..Len(log[API_LOGS]) :
       log[API_LOGS][k].src > 0 => ExactlyOneGroup(log[API_LOGS][k].obj)

\* Every path has built an entry: a probe that succeeded and whose publish
\* failed, next to a probe that failed with a response.
C4_Witness ==
  \E i, j \in 1..Len(ticks) :
    /\ ticks[i].phase = "sendingError" /\ ticks[i].probe.kind = "ok"
    /\ ticks[j].phase = "done" /\ ticks[j].probe.kind = "http_error"
    /\ SentBy(j) # {}

\* C5: no timer is installed and no tick of either kind has run unless, in
\* this run of the producer, an admin connect to the broker and a GET /health
\* have succeeded.
C5_StartupGating ==
  (logTimer \/ metricTimer \/ Len(ticks) > 0 \/ nMetricTicks > 0
     \/ ppc \in {"producerConnect", "adminConnect", "listTopics",
                 "createTopics", "adminDisconnect", "installTimers", "running"})
    => adminConnectOk /\ healthOk

C5_Witness ==
  /\ logTimer /\ metricTimer
  /\ Len(ticks) > 0 /\ nMetricTicks > 0

\* C10 as stated: an invocation whose probe failed has, once it returned,
\* exactly one message on api-logs.
C10_AlwaysPublishes ==
  \A i \in 1..Len(ticks) :
    (ticks[i].phase = "done" /\ ticks[i].probe.kind # "ok")
      => Cardinality(SentBy(i)) = 1

\* C10, amended: an invocation whose probe failed has, once it returned, one
\* message on api-logs unless the publish of the error entry itself failed,
\* and then none; the message is error-shaped and carries the failure message
\* and the response's status, or CONNECTION_ERROR when there is no response;
\* the producer is still running.
C10_PublishesUnlessSendFails ==
  \A i \in 1..Len(ticks) :
    (ticks[i].phase = "done" /\ ticks[i].probe.kind # "ok") =>
      /\ Cardinality(SentBy(i)) = IF ticks[i].sendFailed THEN 0 ELSE 1
      /\ \A k \in SentBy(i) :
           LET ev == log[API_LOGS][k].obj
               probe == ticks[i].probe
           IN /\ log[API_LOGS][k].text = "json"
              /\ Get(ev, "error") = ErrMessage(probe)
              /\ Get(ev, "errorCode") =
                   (IF probe.kind = "http_error" THEN Num(probe.status)
                    ELSE Str("CONNECTION_ERROR"))
              /\ ~Populated(ev, "status") /\ ~Populated(ev, "responseTime")
      /\ ppc = "running"

C10_Witness ==
  \E i, j \in 1..Len(ticks) :
    /\ ticks[i].phase = "done" /\ ticks[i].probe.kind = "http_error"
    /\ Cardinality(SentBy(i)) = 1
    /\ ticks[j].phase = "done" /\ ticks[j].probe.kind \in {"timeout", "refused"}
    /\ ticks[j].sendFailed

TableOf(t) == IF t = API_LOGS THEN "api_logs" ELSE "system_metrics"

\* C6: the consumer subscribes, runs and handles messages only after, in this
\* run, the store answered the connection check, the broker accepted the
\* admin connection and initializeDatabase returned with both tables and the
\* four indexes in place; an INSERT in flight goes to a table that exists.
C6_StartupOrdering ==
  /\ (cpc \in {"consumerConnect", "subscribe", "consumerRun", "running"}
        \/ cur.phase # "idle")
       => pgChecked /\ ckChecked /\ initDone /\ schema = FullSchema
  /\ cur.phase = "insert" => schema[TableOf(cur.topic)] > 0
  /\ \A t \in topics : Offset(t) > 0 => schema = FullSchema

\* A message is being inserted in a run that had to create the schema.
C6_Witness ==
  /\ cur.phase = "insert" /\ initRuns = 1 /\ cRestarts = 0
  /\ \E t \in topics : Offset(t) > 0

InitSteps == {"createApiLogs", "createSystemMetrics", "createIndexes"}

\* C9: a query of initializeDatabase that reaches a store holding both
\* tables and the four indexes leaves the schema as it is and does not exit;
\* no relation ever exists twice.
C9_SchemaInitIdempotent ==
  /\ [](\A r \in Relations : schema[r] <= 1)
  /\ [][(cpc \in InitSteps /\ cpc' # cpc /\ pgUp /\ schema = FullSchema)
          => (schema' = schema /\ cpc' # "exited")]_vars

\* initializeDatabase has returned a second time.
C9_Witness ==
  initRuns >= 2 /\ cpc = "consumerConnect" /\ schema = FullSchema

\* C8: a connectToKafka that reaches createTopics with the broker up goes on
\* to disconnect with both topics existing once each, having asked for the
\* missing names only, or for nothing when none is missing; no name ever
\* exists twice.
C8_TopicCreationIdempotent ==
  /\ [](\A t \in topics : topicNames[t] <= 1)
  /\ [][(ppc = "createTopics" /\ ppc' # ppc /\ kafkaUp)
          => /\ ppc' = "adminDisconnect"
             /\ \A t \in topics : topicNames'[t] = 1
             /\ IF \E t \in topics : topicNames[t] = 0
                  THEN createReq' = {t \in topics : topicNames[t] = 0}
                  ELSE createReq' = createReq]_vars

\* A second run found both topics, which the first run had asked for.
C8_Witness ==
  /\ pRestarts >= 1 /\ ppc = "adminDisconnect"
  /\ existingTopics = topics /\ createReq # {}
  /\ \A t \in topics : topicNames[t] = 1

WaitPg == {"wpConnect", "wpQuery", "wpSleep"}
WaitKafka == {"wkConnect", "wkDisconnect", "wkSleep"}
WaitApi == {"waHealth", "waSleep"}

C11_QueryErrorsHandled ==
  /\ vout # "unhandled"
  /\ vpc \notin UnhandledRejection
  /\ vout = "error" => vpc \in {"continue", "closed"}

\* C12 as stated: whenever the shutdown handler has ended the consumer
\* process, the consumer was disconnected from the broker and the store's
\* connection pool was closed, also when one of the two close steps failed.
C12_ClosesBothBeforeExit ==
  sd \in {"exit0", "exit1"} => closed = {"broker", "store"}

ProducerInitSteps ==
  {"producerConnect", "adminConnect", "listTopics", "createTopics",
   "adminDisconnect"}
ConsumerConnectSteps == {"consumerConnect", "subscribe", "consumerRun"}

Outcomes(t) == {handled[t][k] : k \in 1..Len(handled[t])}

\* C13: a process exits only from its initialization, and then without a
\* timer installed, a tick run, a message handled or a row written; a call
\* of the initial broker connect, the topic creation, the schema setup or
\* the subscription that fails exits the process; once a process is running,
\* no step (a failed probe, publish, parse or insert included) ends it.
C13_OnlyInitFailuresFatal ==
  /\ [](ppc = "exited" =>
         ~logTimer /\ ~metricTimer /\ ticks = <<>> /\ nMetricTicks = 0)
  /\ [](cpc = "exited" =>
         /\ cur = Idle /\ \A t \in topics : handled[t] = <<>>
         /\ api_logs = <<>> /\ system_metrics = <<>>)
  /\ [][/\ (ppc' = "exited" /\ ppc # "exited") => ppc \in ProducerInitSteps
        /\ (cpc' = "exited" /\ cpc # "exited")
             => cpc \in InitSteps \cup ConsumerConnectSteps
        /\ ( /\ ppc \in ProducerInitSteps /\ ppc' # ppc /\ ~kafkaUp
             /\ ~(ppc = "createTopics" /\ TopicsToCreate(existingTopics) = {}))
             => ppc' = "exited"
        /\ (cpc \in InitSteps /\ cpc' # cpc /\ ~pgUp) => cpc' = "exited"
        /\ (cpc \in ConsumerConnectSteps /\ cpc' # cpc /\ ~kafkaUp)
             => cpc' = "exited"
        /\ ppc = "running" => ppc' = "running"
        /\ cpc = "running" => cpc' = "running"]_vars

\* Both processes are running after a probe failed, the publish of its error
\* event failed, a message did not parse and an INSERT failed.
C13_Witness ==
  /\ ppc = "running" /\ cpc = "running"
  /\ \E i \in 1..Len(ticks) :
       /\ ticks[i].phase = "done" /\ ticks[i].probe.kind # "ok"
       /\ ticks[i].sendFailed
  /\ "parse_error" \in Outcomes(API_LOGS)
  /\ "insert_failed" \in Outcomes(SYSTEM_METRICS)

\* Choice 5 has displayed its rows.
SlowShown == vchoice = "5" /\ vout = "rows"

ResponseTimesOf(rows) == [j \in 1..Len(rows) |-> rows[j].response_time]

\* C14: the rows the slow-responses query displays are rows of api_logs with
\* a response_time above 200 (none with NULL or with 200 or less), each once,
\* at most 20, by response_time descending; on a store holding a row with
\* response_time 150 and one with 250 it displays the 250 row only.
C14_SlowResponses ==
  SlowShown =>
    /\ Len(vresult) <= 20
    /\ \A k \in 1..Len(vresult) :
         /\ \E j \in 1..Len(api_logs) : api_logs[j] = vresult[k]
         /\ vresult[k].response_time.t = "num"
         /\ vresult[k].response_time.n > 200
         /\ \A h \in 1..Len(vresult) : vresult[h].id = vresult[k].id => h = k
    /\ \A k \in 1..(Len(vresult) - 1) :
         vresult[k].response_time.n >= vresult[k + 1].response_time.n
    /\ ResponseTimesOf(api_logs) = <<Num(150), Num(250)>>
         => vresult = <<api_logs[2]>>

\* The query has cut its result to 20 rows on a store that holds more slow
\* rows than that, next to rows with response_time NULL, 150 and 200.
C14_Witness ==
  /\ SlowShown /\ vpc = "continue"
  /\ Len(vresult) = 20
  /\ Cardinality({j \in 1..Len(api_logs) :
                   api_logs[j].response_time.t = "num"
                   /\ api_logs[j].response_time.n > 200}) > 20
  /\ \E j \in 1..Len(api_logs) : api_logs[j].response_time = Null
  /\ \E j \in 1..Len(api_logs) : api_logs[j].response_time = Num(150)
  /\ \E j \in 1..Len(api_logs) : api_logs[j].response_time = Num(200)

\* C15 as stated: POST /orders answers 400 when user_id, product_id or
\* quantity is missing from the body, and 201 with an id otherwise.
C15_PostOrders ==
  apiReq.route = "POST /orders" =>
    IF \E f \in {"user_id", "product_id", "quantity"} :
         f \notin DOMAIN apiReq.body
      THEN apiRes.status = 400
      ELSE apiRes.status = 201 /\ "id" \in DOMAIN apiRes.body

\* The samples collectSystemMetrics has published.
Samples ==
  {log[SYSTEM_METRICS][k].obj :
     k \in {h \in 1..Len(log[SYSTEM_METRICS]) : log[SYSTEM_METRICS][h].src > 0}}

\* C16: every sample collectSystemMetrics publishes has cpu and memory in
\* [0, 100], diskUsage in [50, 80] and activeRequests a non-negative integer.
C16_MetricRanges ==
  \A m \in Samples :
    /\ \A f \in {"cpu", "memory", "diskUsage", "activeRequests"} :
         f \in DOMAIN m /\ m[f].t = "num"
    /\ m.cpu.n >= 0 /\ m.cpu.n <= 100
    /\ m.memory.n >= 0 /\ m.memory.n <= 100
    /\ m.diskUsage.n >= 50 /\ m.diskUsage.n <= 80
    /\ m.activeRequests.n \in Nat

\* A sample built from the lowest and the highest draws.
C16_Witness ==
  \E m \in Samples :
    /\ m.cpu.n = 0 /\ m.memory.n = 99
    /\ m.diskUsage.n = 79 /\ m.activeRequests.n = 49

\* The invocations of collectApiLogs that have not returned.
InFlight == {i \in 1..Len(ticks) : ticks[i].phase # "done"}

\* C17: the probe timer starts an invocation of collectApiLogs whenever it
\* fires, whatever the earlier invocations are awaiting (up to the number of
\* invocations followed); a firing adds one invocation of its own and
\* leaves the earlier ones as they are, and no invocation is ever dropped;
\* the metrics timer fires whatever the probe invocations do, and neither
\* timer's step touches the other's invocations.
C17_TicksOverlap ==
  /\ []((logTimer /\ Len(ticks) < MaxTicks) => ENABLED P_LogTick)
  /\ []((metricTimer /\ nMetricTicks < MaxMetricTicks) => ENABLED P_MetricTick)
  /\ [][/\ Len(ticks') \in {Len(ticks), Len(ticks) + 1}
        /\ Len(ticks') = Len(ticks) + 1 =>
             /\ \A i \in 1..Len(ticks) : ticks'[i] = ticks[i]
             /\ ticks'[Len(ticks')].phase = "probing"
        /\ nMetricTicks' # nMetricTicks => ticks' = ticks
        /\ ticks' # ticks => nMetricTicks' = nMetricTicks]_vars

\* Two invocations are in flight at once, one awaiting its probe and one its
\* publish, and the metrics timer has fired meanwhile.
C17_Witness ==
  /\ \E i, j \in InFlight :
       ticks[i].phase = "probing" /\ ticks[j].phase \in {"sending", "sendingError"}
  /\ nMetricTicks > 0

Rows(t) == IF t = API_LOGS THEN api_logs ELSE system_metrics

\* The row the store builds for the message at offset k of topic t.
ColumnsOf(t, k) ==
  IF t = API_LOGS THEN ApiLogColumns(ApiLogParams(log[t][k].obj))
  ELSE MetricsColumns(MetricsParams(log[t][k].obj))

WellFormed(cols) == \A f \in DOMAIN cols : cols[f].t # "bad"

\* C18: how a message is handled depends on that message and on the store
\* when its INSERT settles, not on what happened to other messages: a message
\* ends as a parse error exactly when its body is not JSON; the INSERT of a
\* well-formed message that settles with the store up adds its row, whatever
\* failed before; a handler that ends in a failure leaves both tables, the
\* outcomes of the other messages and the running consumer as they are.
C18_FailureContainment ==
  /\ [](\A t \in topics : \A k \in 1..Offset(t) :
          /\ (handled[t][k] = "parse_error") <=> ~JsonAt(t, k)
          /\ handled[t][k] = "inserted" =>
               \E j \in RowsFor(t, k) :
                 \A f \in DOMAIN ColumnsOf(t, k) :
                   Rows(t)[j][f] = ColumnsOf(t, k)[f])
  /\ [][/\ ( /\ cur.phase = "insert" /\ cur' # cur
             /\ pgUp /\ WellFormed(cur.row))
             => /\ handled'[cur.topic] = Append(handled[cur.topic], "inserted")
                /\ IF cur.topic = API_LOGS
                     THEN Len(api_logs') = Len(api_logs) + 1
                     ELSE Len(system_metrics') = Len(system_metrics) + 1
        /\ \A t \in topics :
             ( /\ Len(handled'[t]) > Len(handled[t])
               /\ handled'[t][Len(handled'[t])] # "inserted")
             => /\ api_logs' = api_logs /\ system_metrics' = system_metrics
                /\ SubSeq(handled'[t], 1, Len(handled[t])) = handled[t]
                /\ \A u \in topics \ {t} : handled'[u] = handled[u]
                /\ cpc' = "running"]_vars

\* On api-logs an INSERT failed and the next message has its row; on
\* system-metrics a message did not parse and the next has its row.
C18_Witness ==
  /\ Offset(API_LOGS) >= 2
  /\ handled[API_LOGS][1] = "insert_failed" /\ handled[API_LOGS][2] = "inserted"
  /\ Offset(SYSTEM_METRICS) >= 2
  /\ handled[SYSTEM_METRICS][1] = "parse_error"
  /\ handled[SYSTEM_METRICS][2] = "inserted"

\* C19: the consumer issues at most one INSERT per delivered message (the
\* outcomes recorded and the INSERT in flight never outnumber the messages,
\* and the INSERT in flight is for the first message not yet handled); an
\* INSERT that fails ends its handler normally, with the message consumed,
\* the tables and ids as they were and the consumer running; a message whose
\* INSERT failed never has a row.
C19_NoRetry ==
  /\ [](\A t \in topics :
          Len(handled[t]) + (IF cur.phase = "insert" /\ cur.topic = t
                               THEN 1 ELSE 0) <= Len(log[t]))
  /\ [](cur.phase = "insert" => cur.off = Offset(cur.topic) + 1)
  /\ [](\A t \in topics : \A k \in 1..Offset(t) :
          handled[t][k] = "insert_failed" => RowsFor(t, k) = {})
  /\ [][\A t \in topics :
          handled'[t] = Append(handled[t], "insert_failed")
            => /\ cur' = Idle /\ cpc' = "running"
               /\ api_logs' = api_logs /\ system_metrics' = system_metrics
               /\ serial' = serial]_vars

\* A message whose INSERT failed has been passed over: the store is up again
\* and the consumer is inserting the next message of the topic.
C19_Witness ==
  /\ pgUp /\ cur.phase = "insert" /\ cur.off = 2
  /\ handled[cur.topic] = <<"insert_failed">>
  /\ RowsFor(cur.topic, 1) = {}

C21_TailTerminates ==
  /\ [][/\ Len(polls') > Len(polls) =>
             (tailOn /\ polls'[Len(polls')].after = lastId)
        /\ (tailOn /\ ~tailOn' /\ vpc' # "closed") => vpc' = "continue"
        /\ \A i \in 1..Len(polls) :
             (polls[i].phase = "querying" /\ polls'[i].phase = "done") =>
               \A k \in (Len(shown) + 1)..Len(shown') :
                 shown'[k] > polls[i].after
        /\ vpc # "menu" => lastId' >= lastId]_vars
  /\ (tailOn ~> ~tailOn)

\* The tail has stopped by its timer after its polls displayed rows and
\* raised lastId to the newest row.
C21_Witness ==
  /\ vpc = "continue" /\ ~tailOn
  /\ Len(polls) = MaxPolls
  /\ \A i \in 1..Len(polls) : polls[i].phase = "done"
  /\ shown # <<>>
  /\ Len(api_logs) > 1
  /\ lastId = api_logs[Len(api_logs)].id

\* The ids tailLogs has displayed so far.
Displayed == {shown[k] : k \in 1..Len(shown)}

\* tailLogs has displayed no row twice.
NeverTwice == \A a, b \in 1..Len(shown) : a # b => shown[a] # shown[b]

\* The timer stops a tail whose polls have all returned, and every row stored
\* since the tail started (id above the lastId the first poll asked for) has
\* been displayed.
NeverSkipped ==
  (/\ tailOn /\ ~tailOn' /\ vpc' = "continue"
   /\ polls # <<>>
   /\ \A i \in 1..Len(polls) : polls[i].phase = "done") =>
    \A j \in 1..Len(api_logs) :
      api_logs[j].id > polls[1].after => api_logs[j].id \in Displayed

\* C23: tailLogs displays no row twice, and when its timer stops the tail,
\* no poll being in flight, every row stored since the tail started has been
\* displayed.
C23_ExactlyOnce == []NeverTwice /\ [][NeverSkipped]_vars

\* C22: every invocation of collectApiLogs has put at most one message on
\* api-logs, and a message with an error field comes only from an invocation
\* whose probe failed.
C22_ErrorOnlyOnProbeFailure ==
  \A i \in 1..Len(ticks) :
    /\ Cardinality(SentBy(i)) <= 1
    /\ \A k \in SentBy(i) :
         Populated(log[API_LOGS][k].obj, "error") => ticks[i].probe.kind # "ok"

\* Both topics exist on the broker.
TopicsExist == \A t \in topics : topicNames[t] > 0

\* C24: the producer's timers are installed only once connectToKafka has
\* returned with both topics in existence; collectApiLogs and
\* collectSystemMetrics run only from the installed timers; and every
\* message of the producer is on a topic that connectToKafka ensured.
C24_TopicsBeforePublish ==
  /\ ppc \in {"installTimers", "running"} => TopicsExist
  /\ (logTimer \/ metricTimer) => (ppc = "running" /\ TopicsExist)
  /\ (ticks # <<>> \/ nMetricTicks > 0) => (logTimer /\ metricTimer)
  /\ \A t \in topics : \A k \in 1..Len(log[t]) :
       log[t][k].src > 0 => (TopicsExist /\ ppc = "running")

\* Both kinds of message were published by a producer that had to create
\* both topics.
C24_Witness ==
  /\ createReq = topics
  /\ \A t \in topics : \E k \in 1..Len(log[t]) : log[t][k].src > 0

\* C25: a row of api_logs stored from an event the producer built has a NULL
\* status or a 2xx status; the row of an invocation whose probe failed (a
\* non-2xx response included) has NULL endpoint, status and response_time and
\* non-NULL error and error_code; and such a row is among the viewer's error
\* logs exactly when its error is not NULL, never by its status.
C25_RowShapes ==
  \A j \in 1..Len(api_logs) :
    LET row == api_logs[j]
        src == MessageOf(row).src
    IN src > 0 =>
         /\ row.status.t # "null" =>
              (row.status.t = "num" /\ row.status.n >= 200 /\ row.status.n < 300)
         /\ ticks[src].probe.kind # "ok" =>
              /\ row.endpoint.t = "null" /\ row.status.t = "null"
              /\ row.response_time.t = "null"
              /\ row.error.t # "null" /\ row.error_code.t # "null"
         /\ IsError(row) <=> row.error.t # "null"
         /\ \A tie \in TieOrders :
              (\E k \in 1..Len(ErrorLogs(api_logs, tie)) :
                 ErrorLogs(api_logs, tie)[k] = row) <=> row.error.t # "null"

\* The row of a probe that got a non-2xx response is stored.
C25_Witness ==
  \E j \in 1..Len(api_logs) :
    /\ MessageOf(api_logs[j]).src > 0
    /\ ticks[MessageOf(api_logs[j]).src].probe.kind = "http_error"
    /\ api_logs[j].error_code = Str("500")

====
